---- MODULE Spec2Model ----
(***************************************************************************)
(* Model of data_download.py: the enumeration of the download work list    *)
(* (main, lines 190-201) and the fetch loop around ddsapi's retrieve call  *)
(* (main, lines 203-225), with the output directory and download.log as    *)
(* the persistent state shared by successive invocations of the tool.      *)
(***************************************************************************)
EXTENDS Integers, Sequences, FiniteSets, TLC

(* ---------------------------- bounds ---------------------------------- *)
\* longest --model / --variable / --scenario list given on the command line
MaxLen == 2
\* largest to_year - from_year given on the command line
MaxSpan == 1
\* largest size of the cross product scenario x model x variable x year
MaxCand == 4
\* number of invocations of the tool with the same arguments
MaxRuns == 2

\* names the user may type: known and unknown to the catalog
ModelPool == {"CESM2", "MIROC6", "ACCESS-CM2"}
VarPool == {"hurs", "tas", "psl"}
ScenarioPool == {"default", "ssp126", "ssp370", "ssp585"}
FromYearPool == {1984, 2014, 2100}

(* ------------------------ Python values -------------------------------- *)
\* an Optional[str]: Python's None, or a string
None == [isNone |-> TRUE, str |-> ""]
Str(s) == [isNone |-> FALSE, str |-> s]
\* truth value of an Optional[str] in "if scenario:"
Truthy(o) == ~o.isNone /\ o.str # ""
\* "x in lst" for a Python list
InList(x, lst) == \E i \in DOMAIN lst : lst[i] = x
\* list(map(f, lst)) for the str -> Optional[str] injection
MapStr(lst) == [i \in DOMAIN lst |-> Str(lst[i])]
\* range(a, b + 1) as a list
range(a, b) == [i \in 1..(IF b >= a THEN b - a + 1 ELSE 0) |-> a + i - 1]

(* ----------------------------- catalog --------------------------------- *)
modes == <<"hist", "future">>
variables == <<"hurs", "pr", "sfcWind", "tas", "tasmax", "tasmin">>
scenarios == [future |-> <<Str("ssp126"), Str("ssp370")>>, hist |-> <<>>]
models == <<"CESM2", "CMCC-CM2-SR5", "CNRM-ESM2-1", "EC-Earth3-Veg",
            "IPSL-CM6A-LR", "MIROC6", "MPI-ESM1-2-HR", "NorESM2-MM",
            "UKESM1-0-LL">>
models_var_assocs ==
    ("CESM2" :> [hist |-> <<"pr", "sfcWind", "tas">>,
                 future |-> <<"pr", "sfcWind", "tas">>])
 @@ ("CMCC-CM2-SR5" :> [hist |-> <<"hurs", "pr", "sfcWind", "tas">>,
                        future |-> <<"hurs", "pr", "sfcWind", "tas">>])
 @@ ("CNRM-ESM2-1" :> [hist |-> <<"hurs", "pr", "tas", "tasmax", "tasmin">>,
                       future |-> <<"hurs", "pr", "tas", "tasmax", "tasmin">>])
 @@ ("EC-Earth3-Veg" :> [hist |-> <<"hurs", "pr", "tas", "tasmax", "tasmin">>,
                         future |-> <<"hurs", "pr", "tas", "tasmax", "tasmin">>])
 @@ ("IPSL-CM6A-LR" :> [hist |-> variables, future |-> variables])
 @@ ("MIROC6" :> [hist |-> variables, future |-> variables])
 @@ ("MPI-ESM1-2-HR" :> [hist |-> variables, future |-> variables])
 @@ ("NorESM2-MM" :> [hist |-> variables, future |-> variables])
 @@ ("UKESM1-0-LL" :> [hist |-> variables, future |-> variables])

dataset == "cmip6-stat-downscaled-over-italy"

(* -------------------------- pure functions ----------------------------- *)
cdd_varname(variable) == variable \o "Adjust"

cdd_variant(variable, mode) == variable \o "-" \o mode

make_scenarios(proposed_scenarios, mode) ==
    IF InList(Str("default"), proposed_scenarios)
    THEN IF mode = "hist" THEN <<None>> ELSE scenarios["future"]
    ELSE proposed_scenarios

\* '_'.join(map(str, years))
RECURSIVE JoinYears(_)
JoinYears(years) ==
    IF years = <<>> THEN ""
    ELSE IF Len(years) = 1 THEN ToString(Head(years))
    ELSE ToString(Head(years)) \o "_" \o JoinYears(Tail(years))

\* a Path is the sequence of its components
outname(ds_root_dir, mode, model, variable, scenario, years) ==
    IF Truthy(scenario)
    THEN <<ds_root_dir, mode, scenario.str, model, cdd_varname(variable),
           JoinYears(years) \o ".nc">>
    ELSE <<ds_root_dir, mode, model, cdd_varname(variable),
           JoinYears(years) \o ".nc">>

\* a call either returns a bool or raises: [raised, value]
Returns(b) == [raised |-> FALSE, value |-> b]
Raises == [raised |-> TRUE, value |-> FALSE]

valid_combo_anyvar(mode, model, variable, scenario) ==
    Returns((InList(scenario, scenarios["future"]) /\ mode = "future")
            \/ (scenario.isNone /\ mode = "hist"))

valid_combo_anymode(mode, model, variable, scenario) ==
    IF model \in DOMAIN models_var_assocs
       /\ mode \notin DOMAIN models_var_assocs[model]
    THEN Raises
    ELSE Returns((InList(scenario, scenarios["future"]) \/ scenario.isNone)
                 /\ model \in DOMAIN models_var_assocs
                 /\ InList(variable, models_var_assocs[model][mode]))

\* models_var_assocs[model][mode] is a KeyError for a mode the table lacks
valid_combo(mode, model, variable, scenario) ==
    IF model \in DOMAIN models_var_assocs
       /\ mode \notin DOMAIN models_var_assocs[model]
    THEN Raises
    ELSE Returns(((InList(scenario, scenarios["future"]) /\ mode = "future")
                  \/ (scenario.isNone /\ mode = "hist"))
                 /\ model \in DOMAIN models_var_assocs
                 /\ InList(variable, models_var_assocs[model][mode]))

valid_year_early(year, mode) ==
    IF mode = "hist" THEN Returns(1984 <= year /\ year <= 2014)
    ELSE IF mode = "future" THEN Returns(2015 <= year /\ year <= 2101)
    ELSE Raises

valid_year(year, mode) ==
    IF mode = "hist" THEN Returns(1985 <= year /\ year <= 2014)
    ELSE IF mode = "future" THEN Returns(2015 <= year /\ year <= 2100)
    ELSE Raises

(* ------------------------------ state ---------------------------------- *)
VARIABLES
    args,          \* the parsed command line, the same on every invocation
    run,           \* number of the current invocation of the tool
    pc,            \* position in main: start, loop, except, done, crashed
    disk,          \* the paths of the files that exist under the output root
    stack,         \* the work list of this invocation
    idx,           \* position of the for loop in stack
    executed,      \* the loop bodies run so far: task and how the try ended
    calls,         \* the calls of c.retrieve made by this invocation
    log,           \* the lines of download.log (opened in append mode)
    slept,         \* seconds spent in sleep() by this invocation
    prev_stack,    \* the work list of the previous invocation
    prev_executed  \* the loop bodies of the previous invocation

vars == <<args, run, pc, disk, stack, idx, executed, calls, log, slept,
          prev_stack, prev_executed>>

ds_root_dir == "out"

\* logging levels of the Python standard library
INFO == 20
WARNING == 30
ERROR == 40
\* basicConfig is given no level, so the root logger keeps WARNING and the
\* module logger (level NOTSET) inherits it
EffectiveLevel == WARNING

\* Logger.log: the record reaches the file only if its level is enabled
Emit(lg, level, kind, task, path) ==
    IF level >= EffectiveLevel
    THEN Append(lg, [level |-> level, kind |-> kind, task |-> task,
                     path |-> path])
    ELSE lg

Task(mode, model, variable, scenario, year) ==
    [mode |-> mode, model |-> model, variable |-> variable,
     scenario |-> scenario, years |-> <<year>>]

TaskPath(t) ==
    outname(ds_root_dir, t.mode, t.model, t.variable, t.scenario, t.years)

(* ------------------------- the list comprehension ---------------------- *)
\* the "if" of the comprehension, with Python's short-circuit "and"
keep_stale(mode, model, variable, scenario, year, d) ==
    /\ valid_combo(mode, model, variable, scenario).value
    /\ valid_year(year, mode).value

keep(mode, model, variable, scenario, year, d) ==
    /\ valid_combo(mode, model, variable, scenario).value
    /\ valid_year(year, mode).value
    /\ outname(ds_root_dir, mode, model, variable, scenario, <<year>>) \notin d

\* the condition raises: valid_combo raises, or it is true and valid_year raises
keep_raises(mode, model, variable, scenario, year) ==
    \/ valid_combo(mode, model, variable, scenario).raised
    \/ /\ valid_combo(mode, model, variable, scenario).value
       /\ valid_year(year, mode).raised

RECURSIVE ForYear(_, _, _, _, _, _)
ForYear(mode, scenario, model, variable, years, d) ==
    IF years = <<>> THEN <<>>
    ELSE (IF keep(mode, model, variable, scenario, Head(years), d)
          THEN <<Task(mode, model, variable, scenario, Head(years))>>
          ELSE <<>>)
         \o ForYear(mode, scenario, model, variable, Tail(years), d)

RECURSIVE ForVariable(_, _, _, _, _, _)
ForVariable(mode, scenario, model, vs, years, d) ==
    IF vs = <<>> THEN <<>>
    ELSE ForYear(mode, scenario, model, Head(vs), years, d)
         \o ForVariable(mode, scenario, model, Tail(vs), years, d)

RECURSIVE ForModel(_, _, _, _, _, _)
ForModel(mode, scenario, ms, vs, years, d) ==
    IF ms = <<>> THEN <<>>
    ELSE ForVariable(mode, scenario, Head(ms), vs, years, d)
         \o ForModel(mode, scenario, Tail(ms), vs, years, d)

RECURSIVE ForScenario(_, _, _, _, _, _)
ForScenario(mode, ss, ms, vs, years, d) ==
    IF ss = <<>> THEN <<>>
    ELSE ForModel(mode, Head(ss), ms, vs, years, d)
         \o ForScenario(mode, Tail(ss), ms, vs, years, d)

StackOf(a, d) ==
    ForScenario(a.mode, make_scenarios(a.scenario, a.mode), a.model,
                a.variable, range(a.from_year, a.to_year), d)

StackRaises(a) ==
    \E i \in DOMAIN make_scenarios(a.scenario, a.mode), j \in DOMAIN a.model,
       k \in DOMAIN a.variable, y \in a.from_year..a.to_year :
        keep_raises(a.mode, a.model[j], a.variable[k],
                    make_scenarios(a.scenario, a.mode)[i], y)

(* ------------------------------ Init ----------------------------------- *)
Lists(pool) == UNION {[1..n -> pool] : n \in 1..MaxLen}

\* what build_argparser accepts: --mode is one of modes, the lists have at
\* least one entry (nargs="+"), the years are any integers
Args ==
    {a \in [mode : {modes[i] : i \in DOMAIN modes},
            model : Lists(ModelPool),
            variable : Lists(VarPool),
            scenario : {MapStr(l) : l \in Lists(ScenarioPool)},
            from_year : FromYearPool,
            to_year : {y + d : y \in FromYearPool, d \in (-1)..MaxSpan},
            dry_run : BOOLEAN] :
        /\ a.to_year - a.from_year \in (-1)..MaxSpan
        /\ Len(make_scenarios(a.scenario, a.mode)) * Len(a.model)
             * Len(a.variable) * (a.to_year - a.from_year + 1) <= MaxCand}

Init ==
    /\ args \in Args
    /\ run = 1
    /\ pc = "start"
    /\ disk = {}
    /\ stack = <<>>
    /\ idx = 1
    /\ executed = <<>>
    /\ calls = <<>>
    /\ log = <<>>
    /\ slept = 0
    /\ prev_stack = <<>>
    /\ prev_executed = <<>>

(* ----------------------------- actions --------------------------------- *)
\* main, lines 177-201: parse, set up logging, build the work list
BuildStack ==
    /\ pc = "start"
    /\ IF StackRaises(args)
       THEN /\ pc' = "crashed"
            /\ stack' = <<>>
       ELSE /\ pc' = "loop"
            /\ stack' = StackOf(args, disk)
    /\ idx' = 1
    /\ UNCHANGED <<args, run, disk, executed, calls, log, slept,
                   prev_stack, prev_executed>>

CurrentTaskPop == stack[Len(stack) - idx + 1]

\* the element the for loop binds in this iteration
CurrentTask == stack[idx]

RetrieveCall(t) ==
    [dataset |-> dataset, variant |-> cdd_variant(t.variable, t.mode),
     target |-> TaskPath(t), target_existed |-> TaskPath(t) \in disk]

\* lines 204-217 with dry_run unset: retrieve returns, leaving the file
RetrieveReturns ==
    /\ pc = "loop" /\ idx <= Len(stack) /\ ~args.dry_run
    /\ LET t == CurrentTask IN
        /\ calls' = Append(calls, RetrieveCall(t))
        /\ disk' = disk \cup {TaskPath(t)}
        /\ log' = Emit(log, INFO, "Downloaded", t, TaskPath(t))
        /\ executed' = Append(executed, [task |-> t, outcome |-> "ok"])
    /\ idx' = idx + 1
    /\ UNCHANGED <<args, run, pc, stack, slept, prev_stack, prev_executed>>

\* lines 204-217 with dry_run set: retrieve is skipped
DryRunStep ==
    /\ pc = "loop" /\ idx <= Len(stack) /\ args.dry_run
    /\ LET t == CurrentTask IN
        /\ log' = Emit(log, INFO, "Downloaded", t, TaskPath(t))
        /\ executed' = Append(executed, [task |-> t, outcome |-> "ok"])
    /\ idx' = idx + 1
    /\ UNCHANGED <<args, run, pc, disk, stack, calls, slept, prev_stack,
                   prev_executed>>

\* lines 204-213: retrieve raises, with or without a partial file left
RetrieveRaises ==
    /\ pc = "loop" /\ idx <= Len(stack) /\ ~args.dry_run
    /\ \E partial \in BOOLEAN :
        LET t == CurrentTask IN
        /\ calls' = Append(calls, RetrieveCall(t))
        /\ disk' = IF partial THEN disk \cup {TaskPath(t)} ELSE disk
        /\ executed' = Append(executed, [task |-> t, outcome |-> "raised"])
    /\ pc' = "except"
    /\ UNCHANGED <<args, run, stack, idx, log, slept, prev_stack,
                   prev_executed>>

unlink_skipped(d, f) == d

\* fname.unlink()
unlink(d, f) == d \ {f}

\* lines 218-225: the except clause
HandleFailure ==
    /\ pc = "except"
    /\ LET t == CurrentTask
           f == TaskPath(t)
           lg == Emit(log, ERROR, "Failed", t, f)
       IN IF f \in disk
          THEN /\ disk' = unlink(disk, f)
               /\ log' = Emit(lg, INFO, "deleted", t, f)
          ELSE /\ disk' = disk
               /\ log' = lg
    /\ slept' = slept + 5
    /\ idx' = idx + 1
    /\ pc' = "loop"
    /\ UNCHANGED <<args, run, stack, executed, calls, prev_stack,
                   prev_executed>>

\* the for loop is exhausted and main returns
LoopExit ==
    /\ pc = "loop" /\ idx > Len(stack)
    /\ pc' = "done"
    /\ UNCHANGED <<args, run, disk, stack, idx, executed, calls, log, slept,
                   prev_stack, prev_executed>>

\* the tool is invoked again with the same arguments on the same directory
Reinvoke ==
    /\ pc = "done" /\ run < MaxRuns
    /\ run' = run + 1
    /\ pc' = "start"
    /\ prev_stack' = stack
    /\ prev_executed' = executed
    /\ stack' = <<>>
    /\ idx' = 1
    /\ executed' = <<>>
    /\ calls' = <<>>
    /\ slept' = 0
    /\ UNCHANGED <<args, disk, log>>

Next ==
    \/ BuildStack
    \/ RetrieveReturns
    \/ DryRunStep
    \/ RetrieveRaises
    \/ HandleFailure
    \/ LoopExit
    \/ Reinvoke

Spec == Init /\ [][Next]_vars

(* ------------------------ auxiliary operators -------------------------- *)
\* the cross product of the comprehension, by position: scenario outermost,
\* then model, then variable, year innermost
CandByIndex(a) ==
    LET ss == make_scenarios(a.scenario, a.mode)
        Y == IF a.to_year >= a.from_year THEN a.to_year - a.from_year + 1 ELSE 0
        V == Len(a.variable)
        M == Len(a.model)
    IN [k \in 1..(Len(ss) * M * V * Y) |->
           Task(a.mode,
                a.model[(((k - 1) \div (Y * V)) % M) + 1],
                a.variable[(((k - 1) \div Y) % V) + 1],
                ss[((k - 1) \div (Y * V * M)) + 1],
                a.from_year + ((k - 1) % Y))]

RECURSIVE IsSubseq(_, _)
IsSubseq(s, t) ==
    IF s = <<>> THEN TRUE
    ELSE IF t = <<>> THEN FALSE
    ELSE IF Head(s) = Head(t) THEN IsSubseq(Tail(s), Tail(t))
    ELSE IsSubseq(s, Tail(t))

IsValid(t) ==
    /\ valid_combo(t.mode, t.model, t.variable, t.scenario).value
    /\ valid_year(t.years[1], t.mode).value

Default == Str("default")

(* ------------------------------ claims --------------------------------- *)

\* C1: every task of the work list has a model that is a key of
\* models_var_assocs and a variable listed in models_var_assocs[model][mode];
\* a pair outside the table, unknown model names included, gives no task and
\* building the list raises no error.
C1_OnlyWhitelistedPairs ==
    /\ pc # "crashed"
    /\ \A i \in DOMAIN stack :
        /\ stack[i].mode = args.mode
        /\ stack[i].model \in DOMAIN models_var_assocs
        /\ InList(stack[i].variable,
                  models_var_assocs[stack[i].model][args.mode])

\* a finished run whose selection names a model unknown to the table and a
\* known model with a variable it lacks, and which still had work to do
C1_Witness ==
    /\ pc = "done"
    /\ stack # <<>>
    /\ \E j \in DOMAIN args.model : args.model[j] \notin DOMAIN models_var_assocs
    /\ \E j \in DOMAIN args.model, k \in DOMAIN args.variable :
        /\ args.model[j] \in DOMAIN models_var_assocs
        /\ ~InList(args.variable[k], models_var_assocs[args.model[j]][args.mode])

\* C2: a task has a scenario iff its mode is future: under hist every task has
\* scenario None and an explicit selection gives no task at all; under future
\* with an explicit selection every task's scenario is in the selection and
\* in {ssp126, ssp370}.
C2_ScenarioIffFuture ==
    /\ \A i \in DOMAIN stack :
        LET t == stack[i] IN
        /\ (~t.scenario.isNone) <=> (t.mode = "future")
        /\ (args.mode = "hist") => (t.scenario = None)
        /\ (args.mode = "future" /\ ~InList(Default, args.scenario))
            => /\ InList(t.scenario, args.scenario)
               /\ t.scenario \in {Str("ssp126"), Str("ssp370")}
    /\ (pc \in {"loop", "except", "done"} /\ args.mode = "hist"
        /\ ~InList(Default, args.scenario)) => (stack = <<>>)

\* a future run with an explicit selection holding a scenario outside the
\* fixed set next to a real one, with tasks enumerated
C2_Witness ==
    /\ pc = "done"
    /\ args.mode = "future"
    /\ ~InList(Default, args.scenario)
    /\ InList(Str("ssp585"), args.scenario)
    /\ stack # <<>>

\* C3: the work list built by a run is the list of the valid candidates, in
\* order, without exactly those whose output path exists when the list is
\* built; the list of a second run is the list of the first run without the
\* tasks whose files have appeared, and is never longer.
C3_FreshnessFilter ==
    [][(pc = "start" /\ pc' = "loop") =>
        LET Fresh(t) == TaskPath(t) \notin disk IN
        /\ stack' = SelectSeq(SelectSeq(CandByIndex(args), IsValid), Fresh)
        /\ \A i \in DOMAIN stack' : TaskPath(stack'[i]) \notin disk
        /\ (run >= 2) => /\ stack' = SelectSeq(prev_stack, Fresh)
                         /\ Len(stack') <= Len(prev_stack)]_vars

\* a second run whose list is not empty and strictly shorter than the first
C3_Witness ==
    /\ run = 2
    /\ pc = "loop"
    /\ stack # <<>>
    /\ Len(stack) < Len(prev_stack)
    /\ \E i \in DOMAIN prev_stack : TaskPath(prev_stack[i]) \in disk

\* C4: when retrieve raises for a task, then before the next task starts an
\* error record is logged, the destination file is not on disk, 5 seconds are
\* slept, and the loop goes on with the next task; the loop only ends when
\* every task of the list has been executed, in order.
C4_FailureIsHandled ==
    [][/\ (pc = "except") =>
            /\ pc' = "loop"
            /\ idx' = idx + 1
            /\ stack' = stack
            /\ TaskPath(stack[idx]) \notin disk'
            /\ Len(log') > Len(log)
            /\ log'[Len(log) + 1] = [level |-> ERROR, kind |-> "Failed",
                                     task |-> stack[idx],
                                     path |-> TaskPath(stack[idx])]
            /\ slept' = slept + 5
       /\ (pc = "loop" /\ idx <= Len(stack)) => (pc' \in {"loop", "except"})
       /\ (pc' = "done") =>
            /\ Len(executed') = Len(stack')
            /\ \A i \in DOMAIN stack' : executed'[i].task = stack'[i]]_vars

\* a finished run in which a retrieval raised and a later task succeeded
C4_Witness ==
    /\ pc = "done"
    /\ slept >= 5
    /\ \E i, j \in DOMAIN executed :
        /\ i < j
        /\ executed[i].outcome = "raised"
        /\ executed[j].outcome = "ok"
        /\ TaskPath(executed[i].task) \notin disk
        /\ TaskPath(executed[j].task) \in disk

\* C5: in dry-run mode retrieve is never called and every task of the work
\* list gets an empty placeholder file at its output path, so that after the
\* run every enumerated task's output path exists.
C5_DryRunPlaceholders ==
    args.dry_run =>
        /\ calls = <<>>
        /\ (pc = "done") => \A i \in DOMAIN stack : TaskPath(stack[i]) \in disk

\* C6: within a run no failed task is attempted again, and the work list of a
\* second run with the same arguments holds none of the tasks the first run
\* completed and exactly the tasks that failed.
C6_RetryByRerun ==
    /\ \A i, j \in DOMAIN executed :
        (i < j /\ executed[i].outcome = "raised")
            => executed[j].task # executed[i].task
    /\ (run >= 2 /\ pc \in {"loop", "except", "done"}) =>
        /\ \A i \in DOMAIN prev_executed :
            (prev_executed[i].outcome = "ok")
                <=> ~InList(prev_executed[i].task, stack)
        /\ \A i \in DOMAIN stack : InList(stack[i], prev_stack)

C9_YearInRange ==
    /\ \A i \in DOMAIN stack :
        /\ Len(stack[i].years) = 1
        /\ (stack[i].mode = "hist") =>
            (1985 <= stack[i].years[1] /\ stack[i].years[1] <= 2014)
        /\ (stack[i].mode = "future") =>
            (2015 <= stack[i].years[1] /\ stack[i].years[1] <= 2100)
        /\ stack[i].mode \in {"hist", "future"}
        /\ stack[i].years[1] \in args.from_year..args.to_year
    /\ \A y \in args.from_year..args.to_year :
        /\ valid_year(y, "historical").raised
        /\ ~valid_year(y, args.mode).raised

\* a finished run over a year range that starts or ends outside the range of
\* the mode and still has a task
C9_Witness ==
    /\ pc = "done"
    /\ stack # <<>>
    /\ \E y \in args.from_year..args.to_year : ~valid_year(y, args.mode).value
    /\ \E j \in DOMAIN args.model, k \in DOMAIN args.variable,
         s \in DOMAIN make_scenarios(args.scenario, args.mode),
         y \in args.from_year..args.to_year :
        /\ valid_combo(args.mode, args.model[j], args.variable[k],
                       make_scenarios(args.scenario, args.mode)[s]).value
        /\ ~valid_year(y, args.mode).value

\* C10: within a run retrieve is started at most once per output path and
\* never for a path that exists when the retrieval starts; no two tasks of a
\* work list share an output path.
C10_OncePerPath ==
    /\ \A i, j \in DOMAIN stack :
        (i # j) => (TaskPath(stack[i]) # TaskPath(stack[j]))
    /\ \A i, j \in DOMAIN calls : (i # j) => (calls[i].target # calls[j].target)
    /\ \A i \in DOMAIN calls : ~calls[i].target_existed
====
